---- MODULE Spec2Model ----
(***************************************************************************)
(* Model of cmd/tealsp: the process entry point (main), the editor-protocol *)
(* path (runLsp) with its diagnostics handler, and the debugger path        *)
(* (runDbg).  The assembler, the dialer, the file system, the JSON decoder  *)
(* and the lsp/dbg session runtimes are external: their outcomes are chosen *)
(* nondeterministically from small sets.                                    *)
(***************************************************************************)
EXTENDS Integers, Sequences, FiniteSets, TLC

(* ------------------------------ bounds -------------------------------- *)

\* Longest ops.Errors list an assembler result carries in the model.
MaxErrors == 2

\* Longest ops.Warnings list an assembler result carries in the model.
MaxWarnings == 2

\* Most handler invocations in flight at once in the stepwise handler.
MaxInFlight == 2

(* ------------------------------ errors -------------------------------- *)

\* The nil error.
Nil == [msg |-> "nil", cause |-> <<>>]

\* errors.New(msg): an error without a cause.  cause holds zero or one error.
NewError(m) == [msg |-> m, cause |-> <<>>]

\* errors.Wrap(err, msg): a new error with message msg whose cause is err.
Wrap(err, m) == [msg |-> m, cause |-> <<err>>]

\* err.Error(): the message segments of the chain, outermost first (the
\* program joins them with ": ").
RECURSIVE ErrorText(_)
ErrorText(err) ==
    IF err.cause = <<>> THEN <<err.msg>>
    ELSE <<err.msg>> \o ErrorText(err.cause[1])

(* ------------------------ assembler results --------------------------- *)

\* 1-based lines the assembler reports; 0 is "unknown".
Lines == {0, 1, 3}

\* 1-based columns the assembler reports; 0 is "unknown".
Columns == {0, 5}

\* Causes wrapped by the assembler's structured errors.
Causes == {NewError("undefined label"), NewError("unknown opcode")}

\* Warnings the assembler reports.
WarningErrs == {NewError("deprecated opcode"), NewError("unused label")}

\* The second result of logic.AssembleString: nil or a top-level failure.
AssembleErrs == {Nil, NewError("assemble failed")}

\* A structured error of ops.Errors: position and wrapped cause.
SourceErrors == [Line : Lines, Column : Columns, Err : Causes]

\* e.Unwrap(): the cause a structured error wraps.
Unwrap(e) == e.Err

\* All sequences over S of length at most n.
SeqsUpTo(S, n) == UNION {[1..k -> S] : k \in 0..n}

\* The results logic.AssembleString can hand to the handler: (ops, err).
OpStreams == [Errors : SeqsUpTo(SourceErrors, MaxErrors),
              Warnings : SeqsUpTo(WarningErrs, MaxWarnings)]

EmptyOps == [Errors |-> <<>>, Warnings |-> <<>>]

(* ------------------------ diagnostics handler ------------------------- *)

DiagErr == "DiagErr"
DiagWarn == "DiagWarn"

LspPosition(l, c) == [Line |-> l, Character |-> c]

LspRange(s, e) == [Start |-> s, End |-> e]

LspDiagnostic(rng, sev, m) == [Range |-> rng, Severity |-> sev, Message |-> m]

\* Variant: the fallback diagnostic is reported with severity Warning.
FallbackDiagnosticsAsWarning(ops, err) ==
    IF err # Nil /\ Len(ops.Errors) = 0 /\ Len(ops.Warnings) = 0
    THEN << LspDiagnostic(LspRange(LspPosition(0, 0), LspPosition(0, 0)),
                          DiagWarn, ErrorText(err)) >>
    ELSE << >>

\* Variant: the fallback diagnostic is emitted for every top-level failure,
\* without looking at ops.Errors and ops.Warnings.
FallbackDiagnosticsAnyFailure(ops, err) ==
    IF err # Nil
    THEN << LspDiagnostic(LspRange(LspPosition(0, 0), LspPosition(0, 0)),
                          DiagErr, ErrorText(err)) >>
    ELSE << >>

\* Variant: the fallback diagnostic is emitted whenever ops.Errors and
\* ops.Warnings are empty, without looking at err.
FallbackDiagnosticsNoErrCheck(ops, err) ==
    IF Len(ops.Errors) = 0 /\ Len(ops.Warnings) = 0
    THEN << LspDiagnostic(LspRange(LspPosition(0, 0), LspPosition(0, 0)),
                          DiagErr, ErrorText(err)) >>
    ELSE << >>

\* Variant: the fallback diagnostic is emitted whenever ops.Errors is empty,
\* without looking at ops.Warnings.
FallbackDiagnosticsIgnoringWarnings(ops, err) ==
    IF err # Nil /\ Len(ops.Errors) = 0
    THEN << LspDiagnostic(LspRange(LspPosition(0, 0), LspPosition(0, 0)),
                          DiagErr, ErrorText(err)) >>
    ELSE << >>

\* The fallback block: a single diagnostic at (0,0)-(0,0) for a failure the
\* assembler did not localize.
FallbackDiagnostics(ops, err) ==
    IF err # Nil
    THEN IF Len(ops.Errors) = 0 /\ Len(ops.Warnings) = 0
         THEN IF err # Nil
              THEN << LspDiagnostic(LspRange(LspPosition(0, 0), LspPosition(0, 0)),
                                    DiagErr, ErrorText(err)) >>
              ELSE << >>
         ELSE << >>
    ELSE << >>

\* Variant: the coordinate is decremented without the test for 0.
DecrementAlways(x) == x - 1

\* l := e.Line; if l != 0 { l-- }   (same for the column)
Decrement(x) == IF x # 0 THEN x - 1 ELSE x

\* Variant: the range of an error ends one character after its start.
ErrorDiagnosticWide(e) ==
    LET l == Decrement(e.Line)
        c == Decrement(e.Column)
    IN  LspDiagnostic(LspRange(LspPosition(l, c), LspPosition(l, c + 1)),
                      DiagErr, ErrorText(Unwrap(e)))

\* The body of the loop over ops.Errors.
ErrorDiagnostic(e) ==
    LET l == Decrement(e.Line)
        c == Decrement(e.Column)
    IN  LspDiagnostic(LspRange(LspPosition(l, c), LspPosition(l, c)),
                      DiagErr, ErrorText(Unwrap(e)))

\* Variant: a warning is reported with severity Error.
WarningDiagnosticAsError(w) ==
    LspDiagnostic(LspRange(LspPosition(0, 0), LspPosition(0, 0)),
                  DiagErr, ErrorText(w))

\* The body of the loop over ops.Warnings.
WarningDiagnostic(w) ==
    LspDiagnostic(LspRange(LspPosition(0, 0), LspPosition(0, 0)),
                  DiagWarn, ErrorText(w))

\* The loop over ops.Errors, appending in order.
ErrorDiagnostics(errs) == [i \in 1..Len(errs) |-> ErrorDiagnostic(errs[i])]

\* The loop over ops.Warnings, appending in order.
WarningDiagnostics(ws) == [i \in 1..Len(ws) |-> WarningDiagnostic(ws[i])]

\* Variant: the warnings loop runs before the errors loop.
PrepareDiagnosticsWarningsFirst(ops, err) ==
    FallbackDiagnostics(ops, err)
        \o WarningDiagnostics(ops.Warnings)
        \o ErrorDiagnostics(ops.Errors)

\* The closure given to lsp.WithPrepareDiagnosticsHandler, after the call
\* to logic.AssembleString returned (ops, err).
PrepareDiagnostics(ops, err) ==
    FallbackDiagnostics(ops, err)
        \o ErrorDiagnostics(ops.Errors)
        \o WarningDiagnostics(ops.Warnings)

(* --------------------------- command line ----------------------------- *)

\* Tokens the flag package reads as a flag (they start with "-").
FlagTokens == {"-net", "-addr", "-debug", "-config", "-algod", "-algod-token",
               "-replay", "-bogus"}

\* flag.StringVar registrations of the editor-protocol branch: flag -> field.
LspFlags == [f \in {"-net", "-addr", "-debug"} |->
                CASE f = "-net" -> "Net"
                  [] f = "-addr" -> "Addr"
                  [] f = "-debug" -> "Debug"]

\* Defaults of the editor-protocol flags.
LspDefaults == [Debug |-> "", Addr |-> "", Net |-> "tcp"]

\* flag.StringVar registrations of the dbg branch: flag -> field.
DbgFlags == [f \in {"-debug", "-config", "-algod", "-algod-token", "-replay"} |->
                CASE f = "-debug" -> "Debug"
                  [] f = "-config" -> "Config"
                  [] f = "-algod" -> "Algod"
                  [] f = "-algod-token" -> "AlgodToken"
                  [] f = "-replay" -> "Replay"]

\* Variant: the algod flag defaults to the empty string.
DbgDefaultsNoAlgod == [Debug |-> "", Config |-> "", Algod |-> "",
                       AlgodToken |-> "", Replay |-> ""]

\* Defaults of the dbg flags.
DbgDefaults == [Debug |-> "", Config |-> "",
                Algod |-> "https://testnet-api.algonode.cloud",
                AlgodToken |-> "", Replay |-> ""]

\* flag.Parse() over args (os.Args[1:]) from position i: a defined flag takes
\* the next argument as its value; the first non-flag argument ends parsing;
\* an undefined flag or a flag without a value is an error.
RECURSIVE FlagParse(_, _, _, _)
FlagParse(args, i, flags, acc) ==
    IF i > Len(args) THEN [ok |-> TRUE, a |-> acc]
    ELSE IF args[i] \notin FlagTokens THEN [ok |-> TRUE, a |-> acc]
    ELSE IF args[i] \notin DOMAIN flags THEN [ok |-> FALSE, a |-> acc]
    ELSE IF i + 1 > Len(args) THEN [ok |-> FALSE, a |-> acc]
    ELSE FlagParse(args, i + 2, flags, [acc EXCEPT ![flags[args[i]]] = args[i + 1]])

\* Variant: the copy without the reslice; the last argument stays twice.
ShiftArgsNoReslice(args) ==
    [i \in 1..Len(args) |-> IF i >= 2 /\ i <= Len(args) - 1 THEN args[i + 1] ELSE args[i]]

\* copy(os.Args[1:], os.Args[2:]); os.Args = os.Args[:len(os.Args)-1]
ShiftArgs(args) ==
    LET n == Len(args)
        copied == [i \in 1..n |-> IF i >= 2 /\ i <= n - 1 THEN args[i + 1] ELSE args[i]]
    IN  SubSeq(copied, 1, n - 1)

\* Concatenation of the flag/value pairs of ps whose index is in S, in order.
RECURSIVE PickPairs(_, _, _)
PickPairs(ps, S, i) ==
    IF i > Len(ps) THEN << >>
    ELSE (IF i \in S THEN ps[i] ELSE << >>) \o PickPairs(ps, S, i + 1)

LspPairs == << <<"-net", "">>, <<"-addr", "localhost:4389">>, <<"-debug", "debug.log">> >>

DbgPairs == << <<"-debug", "debug.log">>, <<"-config", "c.json">>, <<"-algod", "">>,
               <<"-algod-token", "secret">>, <<"-replay", "r.json">> >>

\* Command lines the process is started with.
ArgLists ==
    {<<"tealsp">> \o PickPairs(LspPairs, S, 1) : S \in SUBSET (1..Len(LspPairs))}
    \cup {<<"tealsp", "dbg">> \o PickPairs(DbgPairs, S, 1) : S \in SUBSET (1..Len(DbgPairs))}
    \cup { <<"tealsp", "dbg", "-replay", "r.json", "-config", "c.json">>,
           <<"tealsp", "dbg", "-algod", "http://localhost:4001", "-algod-token", "secret">>,
           <<"tealsp", "dbg", "-net", "tcp">>,
           <<"tealsp", "dbg", "-replay">>,
           <<"tealsp", "-bogus">>,
           <<"tealsp", "-addr">>,
           <<"tealsp", "file.teal", "dbg">>,
           <<"tealsp", "-addr", "localhost:4389", "dbg">> }

(* --------------------------- environment ------------------------------ *)

\* Outcomes of net.Dial.
DialErrs == {Nil, NewError("connection refused")}

\* Outcomes of os.Create and os.ReadFile.
FileErrs == {Nil, NewError("no such file or directory")}

\* Outcomes of json.Unmarshal.
UnmarshalErrs == {Nil, NewError("invalid character")}

\* Outcomes of lsp.New and dbg.New.
NewErrs == {Nil, NewError("invalid option")}

\* Results of the session's Run.
RunResults == {[code |-> 0, err |-> Nil], [code |-> 1, err |-> Nil],
               [code |-> 1, err |-> NewError("session failed")]}

\* Exit status of a Go process that ends in panic.
PanicExitStatus == 2

\* Exit status of flag.Parse (flag.ExitOnError) on a malformed command line.
FlagErrorExitStatus == 2

(* ------------------------------ state --------------------------------- *)

VARIABLES
    osArgs,     \* os.Args
    pc,         \* position of the process in main / runLsp / runDbg
    mode,       \* "none", "lsp" or "dbg": the branch main took
    a,          \* the parsed lspArgs / dbgArgs
    r, w,       \* the session's reader and writer
    opts,       \* the option list under construction
    dials,      \* net.Dial calls made so far: <<network, address>>
    files,      \* os.Create / os.ReadFile calls made so far
    session,    \* << >> or one constructed session
    diag,       \* << >> or the diagnostics request being answered
    ret,        \* what runLsp / runDbg returned: (code, err)
    exitCode    \* the process's exit status once pc is "exited" or "panicked"

vars == <<osArgs, pc, mode, a, r, w, opts, dials, files, session, diag, ret, exitCode>>

Opt(k, args) == [kind |-> k, arg |-> args]

Init ==
    /\ osArgs \in ArgLists
    /\ pc = "main"
    /\ mode = "none"
    /\ a = << >>
    /\ r = "nil"
    /\ w = "nil"
    /\ opts = << >>
    /\ dials = << >>
    /\ files = << >>
    /\ session = << >>
    /\ diag = << >>
    /\ ret = [code |-> 0, err |-> Nil]
    /\ exitCode = 0

(* ------------------------------ main ---------------------------------- *)

\* Variant: "dbg" is looked for anywhere on the command line.
IsDbgAnywhere(args) == \E i \in 2..Len(args) : args[i] = "dbg"

\* The test of main's first if.
IsDbg(args) == Len(args) > 1 /\ args[2] = "dbg"

\* main, dbg branch, up to the call of runDbg.
MainDbg ==
    /\ pc = "main"
    /\ IsDbg(osArgs)
    /\ LET shifted == ShiftArgs(osArgs)
           parsed == FlagParse(Tail(shifted), 1, DbgFlags, DbgDefaults)
       IN  /\ osArgs' = shifted
           /\ mode' = "dbg"
           /\ IF parsed.ok
              THEN /\ a' = parsed.a
                   /\ pc' = "dbg_debug"
                   /\ UNCHANGED exitCode
              ELSE /\ pc' = "exited"
                   /\ exitCode' = FlagErrorExitStatus
                   /\ UNCHANGED a
    /\ UNCHANGED <<r, w, opts, dials, files, session, diag, ret>>

\* main, editor-protocol branch, up to the call of runLsp.
MainLsp ==
    /\ pc = "main"
    /\ ~IsDbg(osArgs)
    /\ LET parsed == FlagParse(Tail(osArgs), 1, LspFlags, LspDefaults)
       IN  /\ mode' = "lsp"
           /\ IF parsed.ok
              THEN /\ a' = parsed.a
                   /\ pc' = "lsp_transport"
                   /\ UNCHANGED exitCode
              ELSE /\ pc' = "exited"
                   /\ exitCode' = FlagErrorExitStatus
                   /\ UNCHANGED a
    /\ UNCHANGED <<osArgs, r, w, opts, dials, files, session, diag, ret>>

\* Variant: os.Exit(code) without the test of err.
MainExitIgnoringErr ==
    /\ pc = "returned"
    /\ pc' = "exited"
    /\ exitCode' = ret.code
    /\ UNCHANGED <<osArgs, mode, a, r, w, opts, dials, files, session, diag, ret>>

\* Variant: the process exits with 0 whatever code was returned.
MainExitZero ==
    /\ pc = "returned"
    /\ ret.err = Nil
    /\ pc' = "exited"
    /\ exitCode' = 0
    /\ UNCHANGED <<osArgs, mode, a, r, w, opts, dials, files, session, diag, ret>>

\* code, err := run...(a); err == nil; os.Exit(code)
MainExit ==
    /\ pc = "returned"
    /\ ret.err = Nil
    /\ pc' = "exited"
    /\ exitCode' = ret.code
    /\ UNCHANGED <<osArgs, mode, a, r, w, opts, dials, files, session, diag, ret>>

\* code, err := run...(a); err != nil; panic(err)
MainPanic ==
    /\ pc = "returned"
    /\ ret.err # Nil
    /\ pc' = "panicked"
    /\ exitCode' = PanicExitStatus
    /\ UNCHANGED <<osArgs, mode, a, r, w, opts, dials, files, session, diag, ret>>

(* ------------------------------ runLsp -------------------------------- *)

\* Variant: the returned error is errors.New(msg); the cause is lost.
ReturnUnwrapped(code, err, m) ==
    /\ ret' = [code |-> code, err |-> NewError(m)]
    /\ pc' = "returned"

\* Variant: every failure is returned with the code -1.
ReturnMinusOne(code, err, m) ==
    /\ ret' = [code |-> -1, err |-> Wrap(err, m)]
    /\ pc' = "returned"

\* runLsp returns (code, errors.Wrap(err, msg)) to main.
Return(code, err, m) ==
    /\ ret' = [code |-> code, err |-> Wrap(err, m)]
    /\ pc' = "returned"

\* One net.Dial call and its outcome.
Dial(network, address, err) == [net |-> network, addr |-> address, err |-> err]

\* One os.Create / os.ReadFile call and its outcome.
FileOp(op, path, err) == [op |-> op, path |-> path, err |-> err]

\* Variant: the transport is dialed whenever an address is given.
ShouldDialAddrOnly(args) == args.Addr # ""

\* The test that selects the dialed transport.
ShouldDial(args) == args.Addr # "" /\ args.Net # ""

\* Variant: a failed dial falls back to stdin/stdout and runLsp goes on.
LspTransportFallback ==
    /\ pc = "lsp_transport"
    /\ IF ShouldDial(a)
       THEN \E err \in DialErrs :
              /\ dials' = Append(dials, Dial(a.Net, a.Addr, err))
              /\ r' = IF err # Nil THEN "stdin" ELSE "conn"
              /\ w' = IF err # Nil THEN "stdout" ELSE "conn"
       ELSE /\ r' = "stdin"
            /\ w' = "stdout"
            /\ UNCHANGED dials
    /\ pc' = "lsp_debug"
    /\ UNCHANGED <<osArgs, mode, a, opts, files, session, diag, ret, exitCode>>

\* The transport selection: dial the client or fall back to stdin/stdout.
LspTransport ==
    /\ pc = "lsp_transport"
    /\ IF ShouldDial(a)
       THEN \E err \in DialErrs :
              /\ dials' = Append(dials, Dial(a.Net, a.Addr, err))
              /\ IF err # Nil
                 THEN /\ Return(-1, err, "failed to connect to the client")
                      /\ UNCHANGED <<r, w>>
                 ELSE /\ r' = "conn"
                      /\ w' = "conn"
                      /\ pc' = "lsp_debug"
                      /\ UNCHANGED ret
       ELSE /\ r' = "stdin"
            /\ w' = "stdout"
            /\ pc' = "lsp_debug"
            /\ UNCHANGED <<dials, ret>>
    /\ UNCHANGED <<osArgs, mode, a, opts, files, session, diag, exitCode>>

\* The optional debug output file of runLsp.
LspDebug ==
    /\ pc = "lsp_debug"
    /\ IF a.Debug # ""
       THEN \E err \in FileErrs :
              /\ files' = Append(files, FileOp("Create", a.Debug, err))
              /\ IF err # Nil
                 THEN /\ Return(-2, err, "failed to create debug output file")
                      /\ UNCHANGED opts
                 ELSE /\ opts' = Append(opts, Opt("WithDebug", <<a.Debug>>))
                      /\ pc' = "lsp_new"
                      /\ UNCHANGED ret
       ELSE /\ pc' = "lsp_new"
            /\ UNCHANGED <<files, opts, ret>>
    /\ UNCHANGED <<osArgs, mode, a, r, w, dials, session, diag, exitCode>>

\* Variant: the diagnostics handler is put in front of the options.
WithHandlerFirst(o) == <<Opt("WithPrepareDiagnosticsHandler", << >>)>> \o o

\* opts = append(opts, lsp.WithPrepareDiagnosticsHandler(...))
WithHandler(o) == Append(o, Opt("WithPrepareDiagnosticsHandler", << >>))

\* Registration of the diagnostics handler and lsp.New(r, w, opts...).
LspNew ==
    /\ pc = "lsp_new"
    /\ LET all == WithHandler(opts)
       IN  /\ opts' = all
           /\ \E err \in NewErrs :
                IF err # Nil
                THEN /\ Return(-3, err, "failed to create lsp")
                     /\ UNCHANGED session
                ELSE /\ session' = << [r |-> r, w |-> w, opts |-> all] >>
                     /\ pc' = "lsp_run"
                     /\ UNCHANGED ret
    /\ UNCHANGED <<osArgs, mode, a, r, w, dials, files, diag, exitCode>>

\* While l.Run() is serving: a diagnostics request arrives, the handler
\* assembles the source and returns its diagnostics.
LspDiagnostics ==
    /\ pc = "lsp_run"
    /\ diag = << >>
    /\ \E ops \in OpStreams, err \in AssembleErrs :
         diag' = << [ops |-> ops, err |-> err, res |-> PrepareDiagnostics(ops, err)] >>
    /\ UNCHANGED <<osArgs, pc, mode, a, r, w, opts, dials, files, session, ret, exitCode>>

\* Variant: the debug output file is created again for every message sent.
LspPublishReopen ==
    /\ pc = "lsp_run"
    /\ diag # << >>
    /\ diag' = << >>
    /\ files' = IF a.Debug # "" THEN Append(files, FileOp("Create", a.Debug, Nil)) ELSE files
    /\ UNCHANGED <<osArgs, pc, mode, a, r, w, opts, dials, session, ret, exitCode>>

\* The runtime sends the handler's diagnostics to the client and drops them.
LspPublish ==
    /\ pc = "lsp_run"
    /\ diag # << >>
    /\ diag' = << >>
    /\ UNCHANGED <<osArgs, pc, mode, a, r, w, opts, dials, files, session, ret, exitCode>>

\* Variant: when Run fails the session is constructed again.
LspRunRestart ==
    /\ pc = "lsp_run"
    /\ diag = << >>
    /\ \E res \in RunResults :
         IF res.err # Nil
         THEN /\ pc' = "lsp_new"
              /\ opts' = SubSeq(opts, 1, Len(opts) - 1)
              /\ session' = << >>
              /\ UNCHANGED ret
         ELSE /\ ret' = res
              /\ pc' = "returned"
              /\ UNCHANGED <<opts, session>>
    /\ UNCHANGED <<osArgs, mode, a, r, w, dials, files, diag, exitCode>>

\* return l.Run()
LspRun ==
    /\ pc = "lsp_run"
    /\ diag = << >>
    /\ \E res \in RunResults :
         /\ ret' = res
         /\ pc' = "returned"
    /\ UNCHANGED <<osArgs, mode, a, r, w, opts, dials, files, session, diag, exitCode>>

(* ------------------------------ runDbg -------------------------------- *)

\* Variant: the debug file failure is returned with runLsp's dial code -1.
DbgFailureDialCode(phase) ==
    CASE phase = "debug"          -> [code |-> -1, msg |-> "failed to create debug output file"]
      [] phase = "config_read"    -> [code |-> -3, msg |-> "failed to read config file"]
      [] phase = "config_parse"   -> [code |-> -4, msg |-> "failed to unmarshal config file"]
      [] phase = "replay_read"    -> [code |-> -5, msg |-> "failed to read replay file"]
      [] phase = "replay_parse"   -> [code |-> -6, msg |-> "failed to unmarshal replay file"]
      [] phase = "new"            -> [code |-> -3, msg |-> "failed to create dbg"]

\* The (code, message) runDbg returns when the named phase fails.
DbgFailure(phase) ==
    CASE phase = "debug"          -> [code |-> -2, msg |-> "failed to create debug output file"]
      [] phase = "config_read"    -> [code |-> -3, msg |-> "failed to read config file"]
      [] phase = "config_parse"   -> [code |-> -4, msg |-> "failed to unmarshal config file"]
      [] phase = "replay_read"    -> [code |-> -5, msg |-> "failed to read replay file"]
      [] phase = "replay_parse"   -> [code |-> -6, msg |-> "failed to unmarshal replay file"]
      [] phase = "new"            -> [code |-> -3, msg |-> "failed to create dbg"]

DbgPhases == {"debug", "config_read", "config_parse", "replay_read", "replay_parse", "new"}

\* runDbg returns the failure of phase, wrapping err.
DbgReturn(phase, err) == Return(DbgFailure(phase).code, err, DbgFailure(phase).msg)

\* r := os.Stdin; w := os.Stdout; the optional debug output file of runDbg.
DbgDebug ==
    /\ pc = "dbg_debug"
    /\ r' = "stdin"
    /\ w' = "stdout"
    /\ IF a.Debug # ""
       THEN \E err \in FileErrs :
              /\ files' = Append(files, FileOp("Create", a.Debug, err))
              /\ IF err # Nil
                 THEN /\ DbgReturn("debug", err)
                      /\ UNCHANGED opts
                 ELSE /\ opts' = Append(opts, Opt("WithDebug", <<a.Debug>>))
                      /\ pc' = "dbg_config"
                      /\ UNCHANGED ret
       ELSE /\ pc' = "dbg_config"
            /\ UNCHANGED <<files, opts, ret>>
    /\ UNCHANGED <<osArgs, mode, a, dials, session, diag, exitCode>>

\* The optional config file: read, unmarshal, register.
DbgConfig ==
    /\ pc = "dbg_config"
    /\ IF a.Config # ""
       THEN \E rerr \in FileErrs, uerr \in UnmarshalErrs :
              /\ files' = Append(files, FileOp("ReadFile", a.Config, rerr))
              /\ IF rerr # Nil
                 THEN /\ DbgReturn("config_read", rerr)
                      /\ UNCHANGED opts
                 ELSE IF uerr # Nil
                 THEN /\ DbgReturn("config_parse", uerr)
                      /\ UNCHANGED opts
                 ELSE /\ opts' = Append(opts, Opt("WithConfig", <<a.Config>>))
                      /\ pc' = "dbg_algod"
                      /\ UNCHANGED ret
       ELSE /\ pc' = "dbg_algod"
            /\ UNCHANGED <<files, opts, ret>>
    /\ UNCHANGED <<osArgs, mode, a, r, w, dials, session, diag, exitCode>>

\* Variant: a live endpoint is registered whatever the address.
HasAlgodAlways(args) == TRUE

\* Variant: a token alone is enough to register a live endpoint.
HasAlgodOrToken(args) == args.Algod # "" \/ args.AlgodToken # ""

\* The test that guards the live endpoint.
HasAlgod(args) == args.Algod # ""

\* Variant: the live endpoint is put in front of the options.
DbgAlgodPrepend ==
    /\ pc = "dbg_algod"
    /\ opts' = IF HasAlgod(a)
               THEN <<Opt("WithAlgod", <<a.Algod, a.AlgodToken>>)>> \o opts
               ELSE opts
    /\ pc' = "dbg_replay"
    /\ UNCHANGED <<osArgs, mode, a, r, w, dials, files, session, diag, ret, exitCode>>

\* The optional live endpoint.
DbgAlgod ==
    /\ pc = "dbg_algod"
    /\ opts' = IF HasAlgod(a)
               THEN Append(opts, Opt("WithAlgod", <<a.Algod, a.AlgodToken>>))
               ELSE opts
    /\ pc' = "dbg_replay"
    /\ UNCHANGED <<osArgs, mode, a, r, w, dials, files, session, diag, ret, exitCode>>

\* Variant: the replay file is used only when there is no live endpoint.
HasReplayUnlessAlgod(args) == args.Replay # "" /\ args.Algod = ""

\* The test that guards the replay file.
HasReplay(args) == args.Replay # ""

\* The optional replay file: read, unmarshal, register.
DbgReplay ==
    /\ pc = "dbg_replay"
    /\ IF HasReplay(a)
       THEN \E rerr \in FileErrs, uerr \in UnmarshalErrs :
              /\ files' = Append(files, FileOp("ReadFile", a.Replay, rerr))
              /\ IF rerr # Nil
                 THEN /\ DbgReturn("replay_read", rerr)
                      /\ UNCHANGED opts
                 ELSE IF uerr # Nil
                 THEN /\ DbgReturn("replay_parse", uerr)
                      /\ UNCHANGED opts
                 ELSE /\ opts' = Append(opts, Opt("WithReplay", <<a.Replay>>))
                      /\ pc' = "dbg_new"
                      /\ UNCHANGED ret
       ELSE /\ pc' = "dbg_new"
            /\ UNCHANGED <<files, opts, ret>>
    /\ UNCHANGED <<osArgs, mode, a, r, w, dials, session, diag, exitCode>>

\* dbg.New(r, w, opts...)
DbgNew ==
    /\ pc = "dbg_new"
    /\ \E err \in NewErrs :
         IF err # Nil
         THEN /\ DbgReturn("new", err)
              /\ UNCHANGED session
         ELSE /\ session' = << [r |-> r, w |-> w, opts |-> opts] >>
              /\ pc' = "dbg_run"
              /\ UNCHANGED ret
    /\ UNCHANGED <<osArgs, mode, a, r, w, opts, dials, files, diag, exitCode>>

\* return l.Run()
DbgRun ==
    /\ pc = "dbg_run"
    /\ \E res \in RunResults :
         /\ ret' = res
         /\ pc' = "returned"
    /\ UNCHANGED <<osArgs, mode, a, r, w, opts, dials, files, session, diag, exitCode>>

(* --------------------------- specification ---------------------------- *)

Next ==
    \/ MainDbg
    \/ MainLsp
    \/ LspTransport
    \/ LspDebug
    \/ LspNew
    \/ LspDiagnostics
    \/ LspPublish
    \/ LspRun
    \/ DbgDebug
    \/ DbgConfig
    \/ DbgAlgod
    \/ DbgReplay
    \/ DbgNew
    \/ DbgRun
    \/ MainExit
    \/ MainPanic

Spec == Init /\ [][Next]_vars

\* The steps the process takes by itself, without waiting for the client.
Progress ==
    \/ MainDbg
    \/ MainLsp
    \/ LspTransport
    \/ LspDebug
    \/ LspNew
    \/ LspPublish
    \/ DbgDebug
    \/ DbgConfig
    \/ DbgAlgod
    \/ DbgReplay
    \/ DbgNew
    \/ DbgRun
    \/ MainExit
    \/ MainPanic

\* The process keeps taking its own steps, and the editor session's Run
\* returns although requests may keep arriving; no request has to arrive.
LiveSpec ==
    /\ Init
    /\ [][Next]_vars
    /\ WF_vars(Progress)
    /\ SF_vars(LspRun)

(* ------------------- handler, statement by statement ------------------ *)

\* In SpecConc the handler runs one statement at a time and several
\* invocations can be in flight: diag holds one record per invocation, with
\* the closure's locals ops, err and res, the statement it is at and the
\* index of its range loop.

\* A positioned error and a warning next to a top-level failure.
InPositioned ==
    [ops |-> [Errors |-> << [Line |-> 3, Column |-> 5, Err |-> NewError("undefined label")] >>,
              Warnings |-> << NewError("deprecated opcode") >>],
     err |-> NewError("assemble failed")]

\* A top-level failure the assembler did not localize.
InBareFailure == [ops |-> EmptyOps, err |-> NewError("assemble failed")]

\* Two errors with unknown coordinates and no top-level failure.
InUnknownPositions ==
    [ops |-> [Errors |-> << [Line |-> 0, Column |-> 0, Err |-> NewError("unknown opcode")],
                            [Line |-> 1, Column |-> 0, Err |-> NewError("undefined label")] >>,
              Warnings |-> << >>],
     err |-> Nil]

\* A top-level failure with a warning and no structured error.
InWarningOnly ==
    [ops |-> [Errors |-> << >>, Warnings |-> << NewError("unused label") >>],
     err |-> NewError("assemble failed")]

\* The results of logic.AssembleString the stepwise handler is run on.
ConcInputs == {InPositioned, InBareFailure, InUnknownPositions, InWarningOnly}

\* Variant: res is declared outside the closure and keeps what the latest
\* invocation still in flight has collected.
NewResRetained(d) == IF d = << >> THEN << >> ELSE d[Len(d)].res

\* var res []lsp.LspDiagnostic: the local of a new invocation, whatever the
\* invocations d already in flight hold.
NewRes(d) == << >>

\* Variant: res is one slice shared by all invocations in flight.
AppendResShared(d, k, x) == [j \in 1..Len(d) |-> [d[j] EXCEPT !.res = Append(@, x)]]

\* res = append(res, x) in invocation k.
AppendRes(d, k, x) == [d EXCEPT ![k].res = Append(@, x)]

\* Invocation k moves to statement at with loop index i.
Goto(d, k, at, i) == [d EXCEPT ![k].at = at, ![k].i = i]

\* The runtime calls the handler; logic.AssembleString returns (ops, err).
HandlerCall ==
    /\ pc = "lsp_run"
    /\ Len(diag) < MaxInFlight
    /\ \E in \in ConcInputs :
         diag' = Append(diag, [ops |-> in.ops, err |-> in.err, res |-> NewRes(diag),
                               at |-> "fallback", i |-> 1])
    /\ UNCHANGED <<osArgs, pc, mode, a, r, w, opts, dials, files, session, ret, exitCode>>

\* The fallback block of invocation k.
HandlerFallback(k) ==
    /\ k \in 1..Len(diag)
    /\ diag[k].at = "fallback"
    /\ LET fb == FallbackDiagnostics(diag[k].ops, diag[k].err)
           d1 == IF fb = << >> THEN diag ELSE AppendRes(diag, k, fb[1])
       IN  diag' = Goto(d1, k, "errors", 1)
    /\ UNCHANGED <<osArgs, pc, mode, a, r, w, opts, dials, files, session, ret, exitCode>>

\* One iteration, or the exit, of the loop over ops.Errors in invocation k.
HandlerErrors(k) ==
    /\ k \in 1..Len(diag)
    /\ diag[k].at = "errors"
    /\ LET n == diag[k].i
       IN  diag' = IF n <= Len(diag[k].ops.Errors)
                   THEN Goto(AppendRes(diag, k, ErrorDiagnostic(diag[k].ops.Errors[n])),
                             k, "errors", n + 1)
                   ELSE Goto(diag, k, "warnings", 1)
    /\ UNCHANGED <<osArgs, pc, mode, a, r, w, opts, dials, files, session, ret, exitCode>>

\* One iteration, or the exit, of the loop over ops.Warnings in invocation k.
HandlerWarnings(k) ==
    /\ k \in 1..Len(diag)
    /\ diag[k].at = "warnings"
    /\ LET n == diag[k].i
       IN  diag' = IF n <= Len(diag[k].ops.Warnings)
                   THEN Goto(AppendRes(diag, k, WarningDiagnostic(diag[k].ops.Warnings[n])),
                             k, "warnings", n + 1)
                   ELSE Goto(diag, k, "done", 1)
    /\ UNCHANGED <<osArgs, pc, mode, a, r, w, opts, dials, files, session, ret, exitCode>>

\* return res: invocation k hands its result to the runtime and ends.
HandlerReturn(k) ==
    /\ k \in 1..Len(diag)
    /\ diag[k].at = "done"
    /\ diag' = SubSeq(diag, 1, k - 1) \o SubSeq(diag, k + 1, Len(diag))
    /\ UNCHANGED <<osArgs, pc, mode, a, r, w, opts, dials, files, session, ret, exitCode>>

NextConc ==
    \/ MainDbg
    \/ MainLsp
    \/ LspTransport
    \/ LspDebug
    \/ LspNew
    \/ HandlerCall
    \/ \E k \in 1..MaxInFlight : HandlerFallback(k)
    \/ \E k \in 1..MaxInFlight : HandlerErrors(k)
    \/ \E k \in 1..MaxInFlight : HandlerWarnings(k)
    \/ \E k \in 1..MaxInFlight : HandlerReturn(k)
    \/ LspRun
    \/ DbgDebug
    \/ DbgConfig
    \/ DbgAlgod
    \/ DbgReplay
    \/ DbgNew
    \/ DbgRun
    \/ MainExit
    \/ MainPanic

SpecConc == Init /\ [][NextConc]_vars

(* ------------------------------ claims -------------------------------- *)

\* A diagnostics request is being answered: its assembler result and the
\* sequence the handler returned are in diag[1].
Answered == diag # << >>

\* Number of diagnostics in res that precede the per-error diagnostics.
Lead(d) == Len(d.res) - Len(d.ops.Errors) - Len(d.ops.Warnings)

ZeroRange == [Start |-> [Line |-> 0, Character |-> 0],
              End |-> [Line |-> 0, Character |-> 0]]

\* C1: for every structured error (line, column) the emitted position has
\* line = line-1 if line > 0 and 0 if line = 0, character = column-1 if
\* column > 0 and 0 if column = 0, each decided independently, and no
\* emitted coordinate is negative.
C1_PositionOffByOne ==
    Answered =>
        LET d == diag[1]
        IN  /\ \A i \in 1..Len(d.ops.Errors) :
                 LET e == d.ops.Errors[i]
                     k == Lead(d) + i
                     line == IF e.Line > 0 THEN e.Line - 1 ELSE 0
                     char == IF e.Column > 0 THEN e.Column - 1 ELSE 0
                 IN  /\ k \in 1..Len(d.res)
                     /\ d.res[k].Range.Start = [Line |-> line, Character |-> char]
                     /\ d.res[k].Range.End = [Line |-> line, Character |-> char]
            /\ \A k \in 1..Len(d.res) :
                 /\ d.res[k].Range.Start.Line >= 0
                 /\ d.res[k].Range.Start.Character >= 0
                 /\ d.res[k].Range.End.Line >= 0
                 /\ d.res[k].Range.End.Character >= 0

\* C1 witness: an answered request with an error at line 3, column 5
\* (reported at (2,4)) and an error with a known line but unknown column.
C1_Witness ==
    /\ Answered
    /\ \E i \in 1..Len(diag[1].ops.Errors) :
         /\ diag[1].ops.Errors[i].Line = 3
         /\ diag[1].ops.Errors[i].Column = 5
         /\ diag[1].res[Lead(diag[1]) + i].Range.Start = [Line |-> 2, Character |-> 4]
    /\ \E i \in 1..Len(diag[1].ops.Errors) :
         /\ diag[1].ops.Errors[i].Line = 1
         /\ diag[1].ops.Errors[i].Column = 0

\* C2: the returned sequence is [fallback, if emitted], then one diagnostic
\* per structured error in the assembler's order, then one per warning in
\* the assembler's order; its length is (0 or 1) + #errors + #warnings.
C2_OrderedConcatenation ==
    Answered =>
        LET d == diag[1]
            E == d.ops.Errors
            W == d.ops.Warnings
            fb == Lead(d)
        IN  /\ fb \in {0, 1}
            /\ fb = 1 =>
                 /\ d.res[1].Message = <<d.err.msg>>
                 /\ d.res[1].Severity = DiagErr
                 /\ d.res[1].Range = ZeroRange
            /\ \A i \in 1..Len(E) :
                 /\ d.res[fb + i].Severity = DiagErr
                 /\ d.res[fb + i].Message = <<E[i].Err.msg>>
                 /\ d.res[fb + i].Range.Start.Line = (IF E[i].Line = 0 THEN 0 ELSE E[i].Line - 1)
                 /\ d.res[fb + i].Range.Start.Character =
                        (IF E[i].Column = 0 THEN 0 ELSE E[i].Column - 1)
            /\ \A j \in 1..Len(W) :
                 /\ d.res[fb + Len(E) + j].Severity = DiagWarn
                 /\ d.res[fb + Len(E) + j].Message = <<W[j].msg>>

\* C2 witness: two different errors and two different warnings, answered
\* with four diagnostics.
C2_Witness ==
    /\ Answered
    /\ Len(diag[1].ops.Errors) = 2
    /\ diag[1].ops.Errors[1] # diag[1].ops.Errors[2]
    /\ Len(diag[1].ops.Warnings) = 2
    /\ diag[1].ops.Warnings[1] # diag[1].ops.Warnings[2]
    /\ Len(diag[1].res) = 4

\* C3: a top-level failure with zero structured errors and zero warnings
\* yields exactly one diagnostic: (0,0)-(0,0), Error, the failure text.
C3_FallbackOnly ==
    (/\ Answered
     /\ diag[1].err # Nil
     /\ diag[1].ops.Errors = << >>
     /\ diag[1].ops.Warnings = << >>)
    => diag[1].res = << [Range |-> ZeroRange,
                         Severity |-> DiagErr,
                         Message |-> <<diag[1].err.msg>>] >>

\* C3 witness: an answered request whose assembler result is a bare failure.
C3_Witness ==
    /\ Answered
    /\ diag[1].err = NewError("assemble failed")
    /\ diag[1].ops = EmptyOps
    /\ Len(diag[1].res) = 1

\* C4: with at least one structured error the fallback diagnostic is not
\* emitted, whether or not a top-level failure was reported.
C4_NoFallbackWithErrors ==
    (Answered /\ Len(diag[1].ops.Errors) >= 1) =>
        /\ Lead(diag[1]) = 0
        /\ \A k \in 1..Len(diag[1].res) : diag[1].res[k].Message # <<diag[1].err.msg>>

\* C4 witness: a top-level failure reported together with a structured error.
C4_Witness ==
    /\ Answered
    /\ diag[1].err # Nil
    /\ Len(diag[1].ops.Errors) >= 1
    /\ Len(diag[1].res) >= 1

\* C5: zero structured errors, zero warnings and no top-level failure yield
\* an empty sequence.
C5_CleanIsEmpty ==
    (/\ Answered
     /\ diag[1].err = Nil
     /\ diag[1].ops.Errors = << >>
     /\ diag[1].ops.Warnings = << >>)
    => diag[1].res = << >>

\* C5 witness: an answered request for a source that assembles cleanly.
C5_Witness ==
    /\ Answered
    /\ diag[1].err = Nil
    /\ diag[1].ops = EmptyOps
    /\ diag[1].res = << >>

\* C6: every warning yields exactly one diagnostic with range (0,0)-(0,0),
\* severity Warning and the warning's text; no warning is emitted with
\* severity Error or a non-zero position.
C6_WarningsAtOrigin ==
    Answered =>
        LET d == diag[1]
            W == d.ops.Warnings
            off == Len(d.res) - Len(W)
        IN  /\ off >= 0
            /\ \A j \in 1..Len(W) :
                 d.res[off + j] = [Range |-> ZeroRange,
                                   Severity |-> DiagWarn,
                                   Message |-> <<W[j].msg>>]
            /\ Cardinality({k \in 1..Len(d.res) : d.res[k].Severity = DiagWarn}) = Len(W)

\* C6 witness: warnings answered next to an error at a non-zero position.
C6_Witness ==
    /\ Answered
    /\ Len(diag[1].ops.Warnings) = 2
    /\ \E i \in 1..Len(diag[1].ops.Errors) : diag[1].ops.Errors[i].Line = 3
    /\ diag[1].res[Len(diag[1].res)].Severity = DiagWarn

\* runLsp has made its transport selection.
LspTransportDone == mode = "lsp" /\ a # << >> /\ pc \notin {"main", "lsp_transport"}

\* C7: in editor-protocol mode, with network and address both non-empty
\* exactly one connection attempt is made, to exactly that pair, and the
\* connection is both reader and writer; with either empty no dial occurs
\* and standard input/output are used.
C7_TransportSelection ==
    /\ mode = "lsp" /\ ~LspTransportDone => dials = << >>
    /\ LspTransportDone =>
         IF a.Net # "" /\ a.Addr # ""
         THEN /\ Len(dials) = 1
              /\ dials[1].net = a.Net
              /\ dials[1].addr = a.Addr
              /\ dials[1].err = Nil => r = "conn" /\ w = "conn"
              /\ session # << >> => session[1].r = "conn" /\ session[1].w = "conn"
         ELSE /\ dials = << >>
              /\ r = "stdin"
              /\ w = "stdout"
              /\ session # << >> => session[1].r = "stdin" /\ session[1].w = "stdout"

\* C7 witness: a session running over a dialed connection.
C7_Witness ==
    /\ mode = "lsp"
    /\ pc = "lsp_run"
    /\ Len(dials) = 1
    /\ session # << >>
    /\ session[1].r = "conn"

\* C8: when the dial fails, runLsp returns -1 with an error wrapping the
\* dial cause, after a single attempt and without falling back to standard
\* input/output.
C8_DialFailure ==
    (mode = "lsp" /\ dials # << >> /\ dials[1].err # Nil) =>
        /\ pc \in {"returned", "panicked"}
        /\ ret.code = -1
        /\ ret.err.msg = "failed to connect to the client"
        /\ ret.err.cause = << dials[1].err >>
        /\ Len(dials) = 1
        /\ r = "nil"
        /\ w = "nil"
        /\ files = << >>
        /\ session = << >>

\* C8 witness: runLsp has returned after a refused connection.
C8_Witness ==
    /\ mode = "lsp"
    /\ pc = "returned"
    /\ Len(dials) = 1
    /\ dials[1].err = NewError("connection refused")
    /\ ret.code = -1

\* runLsp / runDbg returned a failure of a construction phase.
ConstructionFailed == ret.err # Nil /\ session = << >>

\* C9: for every construction-phase failure in either mode the process exit
\* status is the failing phase's negative code (one of -1..-6).
C9_ExitStatusIsPhaseCode ==
    (pc \in {"exited", "panicked"} /\ ConstructionFailed) =>
        /\ exitCode = ret.code
        /\ exitCode \in -6..-1

\* C10: in debugger mode the codes of the construction phases are pairwise
\* distinct: the code runDbg returned for the failing phase is the code of
\* no other phase.
C10_DbgCodesDistinct ==
    (mode = "dbg" /\ pc = "returned" /\ ConstructionFailed) =>
        \A p, q \in DbgPhases :
            (/\ ret.err.msg = DbgFailure(p).msg
             /\ q # p)
            => DbgFailure(q).code # ret.code

\* The last net.Dial call failed.
DialFailed == dials # << >> /\ dials[Len(dials)].err # Nil

\* The last os.Create / os.ReadFile call failed.
FileFailed == files # << >> /\ files[Len(files)].err # Nil

\* C11: in editor-protocol mode the three construction failures return
\* pairwise distinct codes: -1 for exactly the dial failure, -2 for exactly
\* the debug file failure, -3 for exactly the session construction failure.
C11_LspCodesDistinct ==
    (mode = "lsp" /\ pc = "returned" /\ ConstructionFailed) =>
        /\ ret.code \in {-1, -2, -3}
        /\ ret.code = -1 <=> DialFailed
        /\ ret.code = -2 <=> (~DialFailed /\ FileFailed)
        /\ ret.code = -3 <=> (~DialFailed /\ ~FileFailed)
        /\ ret.code = -3 <=> ret.err.msg = "failed to create lsp"

\* C11 witness: runLsp returned the failure of lsp.New after a successful
\* dial and a successful os.Create.
C11_Witness ==
    /\ mode = "lsp"
    /\ pc = "returned"
    /\ ConstructionFailed
    /\ ret.code = -3
    /\ Len(dials) = 1
    /\ Len(files) = 1

\* C12: a non-nil error from runLsp / runDbg ends the process through
\* panic, never through os.Exit(code): os.Exit(code) is reached only with a
\* nil error.
C12_ErrorPanics ==
    /\ pc = "exited" => ret.err = Nil
    /\ pc = "panicked" => ret.err # Nil /\ exitCode = PanicExitStatus
    /\ (pc = "exited" /\ session # << >>) => exitCode = ret.code

\* C12 witness: the process panicked on a construction failure.
C12_Witness ==
    /\ pc = "panicked"
    /\ ConstructionFailed
    /\ ret.code = -2

\* C13: scenario D: editor-protocol mode, empty address, a debug path that
\* cannot be opened: the process exits with the code -2 and no session is
\* constructed.
C13_ScenarioD ==
    (/\ mode = "lsp"
     /\ pc \in {"exited", "panicked"}
     /\ a # << >>
     /\ a.Addr = ""
     /\ FileFailed)
    => /\ exitCode = -2
       /\ session = << >>

\* Position of an option kind in the resolver's order.
OptRank(k) ==
    CASE k = "WithDebug" -> 1
      [] k = "WithConfig" -> 2
      [] k = "WithAlgod" -> 3
      [] k = "WithReplay" -> 4
      [] OTHER -> 0

\* C14: every option list of the debugger has the debug option (if any)
\* before the config option (if any) before the live-endpoint option (if
\* any) before the replay option (if any), each kind at most once.
C14_ResolverOrder ==
    mode = "dbg" =>
        /\ \A i \in 1..Len(opts) : OptRank(opts[i].kind) \in 1..4
        /\ \A i, j \in 1..Len(opts) :
             i < j => OptRank(opts[i].kind) < OptRank(opts[j].kind)
        /\ session # << >> => session[1].opts = opts

\* C14 witness: a debugger session constructed with all four options.
C14_Witness ==
    /\ mode = "dbg"
    /\ session # << >>
    /\ Len(session[1].opts) = 4
    /\ session[1].opts[2].kind = "WithConfig"

\* runDbg is past its live-endpoint step.
AlgodDone ==
    /\ mode = "dbg"
    /\ \/ pc \in {"dbg_replay", "dbg_new", "dbg_run"}
       \/ session # << >>
       \/ /\ ret.err # Nil
          /\ ret.err.msg \in {"failed to read replay file",
                              "failed to unmarshal replay file",
                              "failed to create dbg"}

\* runDbg has produced its whole option list (every file was well-formed).
ResolverDone ==
    /\ mode = "dbg"
    /\ \/ pc \in {"dbg_new", "dbg_run"}
       \/ session # << >>
       \/ ret.err # Nil /\ ret.err.msg = "failed to create dbg"

\* The option list holds an option of kind k.
HasOpt(k) == \E i \in 1..Len(opts) : opts[i].kind = k

\* The command line of scenario C, as main leaves it after the shift.
ScenarioC == mode = "dbg" /\ osArgs = <<"tealsp", "-replay", "r.json", "-config", "c.json">>

\* C15 as stated: `dbg -replay r.json -config c.json` yields the config
\* option before the replay option and no live-endpoint option.
C15_ScenarioC_NoLiveEndpoint ==
    (ScenarioC /\ ResolverDone) =>
        /\ \E i, j \in 1..Len(opts) :
             /\ i < j
             /\ opts[i].kind = "WithConfig"
             /\ opts[j].kind = "WithReplay"
        /\ ~HasOpt("WithAlgod")

\* C15 amended: `dbg -replay r.json -config c.json` yields the config
\* option, then a live-endpoint option for the default endpoint with an
\* empty token, then the replay option.
C15_ScenarioC_DefaultEndpoint ==
    (ScenarioC /\ ResolverDone) =>
        opts = << Opt("WithConfig", <<"c.json">>),
                  Opt("WithAlgod", <<"https://testnet-api.algonode.cloud", "">>),
                  Opt("WithReplay", <<"r.json">>) >>

\* C15 witness: the debugger session of scenario C is constructed.
C15_Witness ==
    /\ ScenarioC
    /\ session # << >>
    /\ Len(session[1].opts) = 3

\* C16: a replay path with an empty endpoint address gives a replay option
\* and no live-endpoint option; an endpoint address with an empty replay
\* path gives a live-endpoint option and no replay option.
C16_OnlyOneSource ==
    ResolverDone =>
        /\ (a.Replay # "" /\ a.Algod = "") => (HasOpt("WithReplay") /\ ~HasOpt("WithAlgod"))
        /\ (a.Algod # "" /\ a.Replay = "") => (HasOpt("WithAlgod") /\ ~HasOpt("WithReplay"))

\* C16 witness: the option list of a replay-only invocation.
C16_Witness ==
    /\ ResolverDone
    /\ a.Replay # ""
    /\ a.Algod = ""
    /\ HasOpt("WithReplay")

\* C17: with an endpoint address and a well-formed replay path both options
\* are registered, the live endpoint before the replay, neither altered.
C17_BothSources ==
    (ResolverDone /\ a.Algod # "" /\ a.Replay # "") =>
        \E i, j \in 1..Len(opts) :
            /\ i < j
            /\ opts[i] = [kind |-> "WithAlgod", arg |-> <<a.Algod, a.AlgodToken>>]
            /\ opts[j] = [kind |-> "WithReplay", arg |-> <<a.Replay>>]

\* C17 witness: a debugger session constructed with both sources.
C17_Witness ==
    /\ mode = "dbg"
    /\ session # << >>
    /\ a.Algod # ""
    /\ a.Replay # ""
    /\ HasOpt("WithAlgod")
    /\ HasOpt("WithReplay")

\* C18: a live-endpoint option is registered iff the address is non-empty;
\* it carries the address and the token unchanged; an empty token is
\* accepted; a token with an empty address registers nothing.
C18_LiveEndpointIffAddress ==
    /\ (mode = "dbg" /\ ~AlgodDone) => ~HasOpt("WithAlgod")
    /\ AlgodDone =>
         /\ HasOpt("WithAlgod") <=> a.Algod # ""
         /\ \A i \in 1..Len(opts) :
              opts[i].kind = "WithAlgod" => opts[i].arg = <<a.Algod, a.AlgodToken>>
         /\ Cardinality({i \in 1..Len(opts) : opts[i].kind = "WithAlgod"}) <= 1

\* C18 witness: a token given with an empty address, nothing registered.
C18_Witness ==
    /\ AlgodDone
    /\ a.Algod = ""
    /\ a.AlgodToken # ""
    /\ ~HasOpt("WithAlgod")

\* C19: in debugger mode no dial is ever attempted, the transport is
\* standard input/output, and no construction failure returns -1.
C19_DbgStdioOnly ==
    mode = "dbg" =>
        /\ dials = << >>
        /\ r \in {"nil", "stdin"}
        /\ w \in {"nil", "stdout"}
        /\ session # << >> => session[1].r = "stdin" /\ session[1].w = "stdout"
        /\ ConstructionFailed => ret.code # -1

\* C19 witness: a debugger session running over standard input/output.
C19_Witness ==
    /\ mode = "dbg"
    /\ pc = "dbg_run"
    /\ session # << >>
    /\ session[1].r = "stdin"
    /\ session[1].w = "stdout"

\* C20: a constructed editor-protocol session has the diagnostics handler
\* exactly once and last; a debug option precedes it iff a debug path was
\* given and opened; with an empty address and no debug path the session is
\* over stdio with the handler as its only option.
C20_LspOptions ==
    (mode = "lsp" /\ session # << >>) =>
        LET o == session[1].opts
            handler == [kind |-> "WithPrepareDiagnosticsHandler", arg |-> << >>]
        IN  /\ Len(o) >= 1
            /\ o[Len(o)] = handler
            /\ Cardinality({i \in 1..Len(o) : o[i].kind = handler.kind}) = 1
            /\ a.Debug # "" <=> (\E i \in 1..(Len(o) - 1) :
                                    o[i] = [kind |-> "WithDebug", arg |-> <<a.Debug>>])
            /\ a.Debug # "" => files = << FileOp("Create", a.Debug, Nil) >>
            /\ Len(o) = (IF a.Debug # "" THEN 2 ELSE 1)
            /\ (a.Addr = "" /\ a.Debug = "") =>
                 session[1] = [r |-> "stdin", w |-> "stdout", opts |-> <<handler>>]

\* C20 witness: a session with a debug option before the handler.
C20_Witness ==
    /\ mode = "lsp"
    /\ session # << >>
    /\ Len(session[1].opts) = 2
    /\ session[1].opts[1].kind = "WithDebug"

LspPcs == {"lsp_transport", "lsp_debug", "lsp_new", "lsp_run"}

DbgPcs == {"dbg_debug", "dbg_config", "dbg_algod", "dbg_replay", "dbg_new", "dbg_run"}

RunPcs == {"lsp_run", "dbg_run"}

Terminated == pc \in {"exited", "panicked"}

\* C21: the debugger path is taken iff a first argument exists and is
\* "dbg", otherwise the editor-protocol path; exactly one of the two paths
\* runs, and at most one session is constructed and run.
C21_ModeDispatch ==
    /\ [][pc = "main" =>
            /\ mode' \in {"lsp", "dbg"}
            /\ mode' = "dbg" <=> (Len(osArgs) >= 2 /\ osArgs[2] = "dbg")]_vars
    /\ [][mode # "none" => mode' = mode]_vars
    /\ [](mode = "none" => pc = "main")
    /\ [](mode = "lsp" => pc \notin DbgPcs)
    /\ [](mode = "dbg" => pc \notin LspPcs)
    /\ [](Len(session) <= 1)
    /\ [][session # << >> => session' = session]_vars
    /\ [][(pc' \in RunPcs /\ pc \notin RunPcs) => (session = << >> /\ session' # << >>)]_vars

\* C21 witness: "dbg" given, but not as the first argument: the
\* editor-protocol session runs.
C21_Witness ==
    /\ osArgs = <<"tealsp", "file.teal", "dbg">>
    /\ mode = "lsp"
    /\ pc = "lsp_run"
    /\ session # << >>

\* C22: when construction succeeds and Run returns a status without error,
\* the process exits with exactly that status (0 on a clean shutdown), in
\* both modes.
C22_RunStatusIsExitStatus ==
    (Terminated /\ session # << >> /\ ret.err = Nil) =>
        /\ pc = "exited"
        /\ ret \in RunResults
        /\ exitCode = ret.code

\* C22 witness: a debugger session whose Run returned 1 without error.
C22_Witness ==
    /\ mode = "dbg"
    /\ pc = "exited"
    /\ session # << >>
    /\ ret = [code |-> 1, err |-> Nil]
    /\ exitCode = 1

\* No two entries of the file log are the same operation on the same path.
FilesOnce ==
    \A i, j \in 1..Len(files) :
        i < j => <<files[i].op, files[i].path>> # <<files[j].op, files[j].path>>

\* C23: once a construction phase fails no later phase is attempted and
\* nothing is retried: after a failed dial no file is created, after an
\* unreadable or malformed config the replay file is not read, after any
\* failure no session is constructed or run; each phase runs at most once.
C23_FailFast ==
    /\ [](Len(dials) <= 1)
    /\ [](FilesOnce)
    /\ [](\A i \in 1..(Len(files) - 1) : files[i].err = Nil)
    /\ [](DialFailed => files = << >>)
    /\ []((DialFailed \/ FileFailed) => (session = << >> /\ pc \in {"returned", "panicked"}))
    /\ []((ret.err # Nil /\ ret.err.msg \in {"failed to read config file",
                                             "failed to unmarshal config file"})
          => (files # << >> /\ files[Len(files)].path = a.Config /\ ~HasOpt("WithReplay")))
    /\ [](ConstructionFailed => pc \in {"returned", "panicked"})
    /\ [][ConstructionFailed => UNCHANGED <<dials, files, opts, session, r, w, ret>>]_vars

\* C23 witness: the config file was malformed and a replay file, though
\* given, was never read.
C23_Witness ==
    /\ mode = "dbg"
    /\ pc = "panicked"
    /\ ret.err.msg = "failed to unmarshal config file"
    /\ a.Replay # ""
    /\ \A i \in 1..Len(files) : files[i].path # a.Replay

\* lsp.New / dbg.New has been called.
ConstructorCalled ==
    \/ session # << >>
    \/ ret.err # Nil /\ ret.err.msg \in {"failed to create lsp", "failed to create dbg"}

\* C24: each file is opened or read at most once; every open and the dial
\* happen before the session constructor is called, the constructor before
\* Run, and nothing is opened once the constructor has been called.
C24_OpensBeforeConstructor ==
    /\ [](FilesOnce /\ Len(files) <= 3 /\ Len(dials) <= 1)
    /\ [][ConstructorCalled => (files' = files /\ dials' = dials)]_vars
    /\ [][(files' # files \/ dials' # dials) => ~ConstructorCalled']_vars
    /\ [](pc \in RunPcs => session # << >>)
    /\ []((ret.err # Nil /\ ret.err.msg = "session failed") => session # << >>)

\* C24 witness: a debugger session constructed after the debug, config and
\* replay files were each opened once.
C24_Witness ==
    /\ mode = "dbg"
    /\ pc = "dbg_run"
    /\ Len(files) = 3
    /\ session # << >>

\* C26: every diagnostic has exactly one severity, Error or Warning, and a
\* zero-width range; the fallback diagnostic and every warning diagnostic
\* have range (0,0)-(0,0); every diagnostic derived from a structured error
\* has severity Error.
C26_SeverityAndRange ==
    Answered =>
        LET d == diag[1]
            E == d.ops.Errors
            W == d.ops.Warnings
            fb == Lead(d)
        IN  /\ \A k \in 1..Len(d.res) :
                 /\ DOMAIN d.res[k] = {"Range", "Severity", "Message"}
                 /\ d.res[k].Severity \in {DiagErr, DiagWarn}
                 /\ d.res[k].Range.Start = d.res[k].Range.End
            /\ \A k \in 1..fb : d.res[k].Range = ZeroRange
            /\ \A i \in 1..Len(E) : d.res[fb + i].Severity = DiagErr
            /\ \A j \in 1..Len(W) : d.res[fb + Len(E) + j].Range = ZeroRange

\* C26 witness: an error at a known position answered together with a
\* warning; the error's diagnostic is away from the origin.
C26_Witness ==
    /\ Answered
    /\ Len(diag[1].ops.Errors) = 1
    /\ Len(diag[1].ops.Warnings) = 1
    /\ diag[1].res[1].Range.Start = [Line |-> 2, Character |-> 4]
    /\ diag[1].res[1].Range.End = [Line |-> 2, Character |-> 4]
    /\ diag[1].res[2].Range = ZeroRange

\* C28: a top-level failure with zero structured errors but at least one
\* warning emits no fallback diagnostic: the result holds only Warning
\* diagnostics, none of severity Error, and the failure text is in none.
C28_NoFallbackWithWarnings ==
    (/\ Answered
     /\ diag[1].err # Nil
     /\ diag[1].ops.Errors = << >>
     /\ Len(diag[1].ops.Warnings) >= 1)
    => /\ Len(diag[1].res) = Len(diag[1].ops.Warnings)
       /\ \A k \in 1..Len(diag[1].res) :
            /\ diag[1].res[k].Severity = DiagWarn
            /\ diag[1].res[k].Severity # DiagErr
            /\ diag[1].res[k].Message # <<diag[1].err.msg>>
            /\ diag[1].res[k].Message = <<diag[1].ops.Warnings[k].msg>>

\* C28 witness: a failed assembly that reported one warning and no error,
\* answered with one diagnostic.
C28_Witness ==
    /\ Answered
    /\ diag[1].err = NewError("assemble failed")
    /\ diag[1].ops.Errors = << >>
    /\ Len(diag[1].ops.Warnings) = 1
    /\ Len(diag[1].res) = 1
    /\ diag[1].res[1].Severity = DiagWarn

\* C29: when the first argument is "dbg" the list handed to flag parsing is
\* the original list without the element at index 1: the program name stays
\* first, later arguments keep their order, the length drops by one; when
\* the first argument is not "dbg" the list is unchanged.
C29_ArgumentShift ==
    /\ [][pc = "main" =>
            IF Len(osArgs) >= 2 /\ osArgs[2] = "dbg"
            THEN /\ Len(osArgs') = Len(osArgs) - 1
                 /\ osArgs'[1] = osArgs[1]
                 /\ \A i \in 2..Len(osArgs') : osArgs'[i] = osArgs[i + 1]
                 /\ pc' = "dbg_debug" =>
                      a' = FlagParse(Tail(osArgs'), 1, DbgFlags, DbgDefaults).a
            ELSE /\ osArgs' = osArgs
                 /\ pc' = "lsp_transport" =>
                      a' = FlagParse(Tail(osArgs), 1, LspFlags, LspDefaults).a]_vars
    /\ [][pc # "main" => osArgs' = osArgs]_vars

\* C29 witness: "dbg" was removed from in front of two flags, which were
\* then parsed.
C29_Witness ==
    /\ mode = "dbg"
    /\ pc = "dbg_debug"
    /\ osArgs = <<"tealsp", "-replay", "r.json", "-config", "c.json">>
    /\ a.Replay = "r.json"
    /\ a.Config = "c.json"

\* Position of a control point in the order the code reaches them.
PcRank(p) ==
    CASE p = "main" -> 0
      [] p \in {"lsp_transport", "dbg_debug"} -> 1
      [] p \in {"lsp_debug", "dbg_config"} -> 2
      [] p = "dbg_algod" -> 3
      [] p = "dbg_replay" -> 4
      [] p \in {"lsp_new", "dbg_new"} -> 5
      [] p \in RunPcs -> 6
      [] p = "returned" -> 7
      [] OTHER -> 8

\* C30: if Run returns, every invocation terminates: it reaches exactly one
\* terminal outcome, exit or abnormal termination, after at most one dial,
\* one open or read per file and one session construction, and no step
\* leads back to an earlier phase.
C30_Terminates ==
    /\ <>Terminated
    /\ [][Terminated => UNCHANGED vars]_vars
    /\ [][PcRank(pc') >= PcRank(pc)]_vars
    /\ [][(pc' # pc) => PcRank(pc') > PcRank(pc)]_vars
    /\ [](Terminated =>
            /\ Len(dials) <= 1
            /\ FilesOnce
            /\ Len(files) <= 3
            /\ Len(session) <= 1
            /\ pc = "panicked" <=> ret.err # Nil)
    /\ [][(Len(dials') >= Len(dials)) /\ (Len(files') >= Len(files))
          /\ (Len(session') >= Len(session))]_vars

\* C30 witness: an editor session over a dialed connection with a debug
\* file ended with Run's status after answering requests.
C30_Witness ==
    /\ mode = "lsp"
    /\ pc = "exited"
    /\ Len(dials) = 1
    /\ Len(files) = 1
    /\ session # << >>
    /\ exitCode = ret.code

\* Invocation k has run to its return statement.
Done(k) == diag[k].at = "done"

\* C25: with two or more invocations in flight and their statements
\* interleaved, each invocation returns the sequence it would return alone,
\* and at no point holds a diagnostic that comes from another invocation's
\* assembler result.
C25_InterleavingSafe ==
    \A k \in 1..Len(diag) :
        LET alone == PrepareDiagnostics(diag[k].ops, diag[k].err)
        IN  /\ Len(diag[k].res) <= Len(alone)
            /\ diag[k].res = SubSeq(alone, 1, Len(diag[k].res))
            /\ Done(k) => diag[k].res = alone

\* C25 witness: an invocation that started later has run to its end while
\* an earlier one, on another assembler result, is still inside its loops.
C25_Witness ==
    /\ Len(diag) = 2
    /\ diag[1].at = "warnings"
    /\ Len(diag[1].res) >= 1
    /\ Done(2)
    /\ Len(diag[2].res) >= 1
    /\ diag[2].ops # diag[1].ops

\* A zero-width diagnostic at (l, c).
DiagAt(l, c, sev, text) ==
    [Range |-> [Start |-> [Line |-> l, Character |-> c],
                End |-> [Line |-> l, Character |-> c]],
     Severity |-> sev,
     Message |-> <<text>>]

\* The diagnostics each assembler result of ConcInputs translates to.
ExpectedDiagnostics(ops, err) ==
    CASE [ops |-> ops, err |-> err] = InPositioned ->
            << DiagAt(2, 4, DiagErr, "undefined label"),
               DiagAt(0, 0, DiagWarn, "deprecated opcode") >>
      [] [ops |-> ops, err |-> err] = InBareFailure ->
            << DiagAt(0, 0, DiagErr, "assemble failed") >>
      [] [ops |-> ops, err |-> err] = InUnknownPositions ->
            << DiagAt(0, 0, DiagErr, "unknown opcode"),
               DiagAt(0, 0, DiagErr, "undefined label") >>
      [] [ops |-> ops, err |-> err] = InWarningOnly ->
            << DiagAt(0, 0, DiagWarn, "unused label") >>

\* C27: the handler's result is a function of the assembler's result only:
\* in every session, whatever its transport and debug sink and whatever was
\* invoked before, an invocation returns the one sequence that belongs to
\* its assembler result, so invocations on equal results return equal
\* sequences.
C27_PureFunction ==
    /\ \A k \in 1..Len(diag) :
         Done(k) => diag[k].res = ExpectedDiagnostics(diag[k].ops, diag[k].err)
    /\ \A j, k \in 1..Len(diag) :
         (/\ diag[j].ops = diag[k].ops
          /\ diag[j].err = diag[k].err
          /\ diag[j].at = diag[k].at
          /\ diag[j].i = diag[k].i)
         => diag[j].res = diag[k].res

\* C27 witness: two finished invocations on the same assembler result, in a
\* session over a dialed connection with a debug file.
C27_Witness ==
    /\ Len(dials) = 1
    /\ Len(files) = 1
    /\ Len(diag) = 2
    /\ Done(1)
    /\ Done(2)
    /\ [ops |-> diag[1].ops, err |-> diag[1].err] = InPositioned
    /\ [ops |-> diag[2].ops, err |-> diag[2].err] = InPositioned
    /\ Len(diag[1].res) = 2

====
